---- MODULE Spec2Model ----
(***************************************************************************)
(* Model of the two data-collection engines of pem_cloak:                  *)
(*                                                                         *)
(*   MaterialsProjectCollector  (materials_project_collector.py)           *)
(*   LiteratureDatabase         (literature_database.py)                   *)
(*                                                                         *)
(* The engines share no state.  A behaviour starts before anything is      *)
(* constructed and then drives exactly one of the two engines, so the      *)
(* reachable states are the disjoint union of the two engines' states.     *)
(*                                                                         *)
(* Units.  Python floats are modelled as integers:                         *)
(*   energies and thresholds of the collector in meV/atom (0.1 eV = 100);  *)
(*   every float field of a literature record in hundredths of its unit    *)
(*   (8.5 mOhm cm2 = 850, 3000.0 h = 300000).                              *)
(* Strings that are only compared for equality are TLA+ strings; strings   *)
(* that are searched (material, substrate, filter patterns) are sequences  *)
(* of one-character strings.                                               *)
(***************************************************************************)
EXTENDS Integers, Sequences, FiniteSets, TLC

VARIABLES
    \* ---- MaterialsProjectCollector ----
    pc,          \* "none": no collector; "idle": between calls; "searching": inside collect
    api_key,     \* self.api_key
    constructed, \* outcome of the last constructor call: "never" | "ok" | "ValueError"
    candidates,  \* self.candidates
    run,         \* arguments of the collect call in progress / last made
    systems,     \* systems_to_search of that call
    idx,         \* position of the for loop in systems (1-based, next to search)
    client,      \* the MPRester of that call: "unopened" | "open" | "closed"
    clientKey,   \* credential that client was opened with
    searched,    \* searches issued by that call, in order (chemsys strings)
    warned,      \* warnings.warn calls of that call, in order (chemsys strings)
    failed,      \* systems whose try block raised during that call, in order
    appended,    \* records appended to self.candidates by that call, in order
    docsSeen,    \* documents the service has returned to that call
    outcome,     \* how the last collect call ended: "none" | "running" | "returned" | "KeyError"
    returned,    \* DataFrame the caller holds from the last call that returned
    returnedThreshold, \* stability_threshold of the call that returned it
    \* ---- LiteratureDatabase ----
    db,          \* "none": no database; "live": constructed
    entries,     \* self.entries
    call,        \* the last method call on the database and its arguments
    result,      \* what that call returned or raised
    adds,        \* records appended since construction (add_entry, add_from_dict, load_from_csv)
    disk,        \* the file save_to_csv wrote last, if any
    exported     \* self.entries as it was when that file was written

mpvars == <<pc, api_key, constructed, candidates, run, systems, idx, client,
            clientKey, searched, warned, failed, appended, docsSeen, outcome,
            returned, returnedThreshold>>

fsvars == <<disk, exported>>

litvars == <<db, entries, call, result, adds, fsvars>>

vars == <<mpvars, litvars>>

----------------------------------------------------------------------------
(* Generic helpers *)

Range(s) == {s[i] : i \in 1..Len(s)}

SeqsUpTo(S, n) == UNION {[1..k -> S] : k \in 0..n}

----------------------------------------------------------------------------
(* MaterialsProjectCollector: configuration *)

CONDUCTIVE_OXIDES == <<"Sn-O", "In-O", "Ir-O", "Ti-O", "Ru-O", "Nb-O", "Ta-O", "In-Sn-O", "Zr-O", "Hf-O">>

NITRIDES == <<"Ti-N", "Cr-N", "Zr-N", "Ta-N", "V-N", "Nb-N", "W-N", "Mo-N", "Al-N", "Hf-N", "Si-N">>

CARBIDES == <<"Ti-C", "W-C", "Ta-C", "Cr-C", "Zr-C", "Nb-C", "V-C", "Mo-C", "Si-C", "Hf-C", "B-C">>

\* Python None for a credential (api_key parameter not passed, MP_API_KEY unset).
NoCredential == "<None>"

\* Credentials offered to the constructor: absent, empty, present.
Credentials == {NoCredential, "", "mp-key"}

\* Python truthiness of an Optional[str].
Truthy(s) == s # NoCredential /\ s # ""

\* api_key or os.getenv("MP_API_KEY")
ResolveKey(param, env) == IF Truthy(param) THEN param ELSE env

KeyMissingAlt(k) == k = NoCredential

\* not self.api_key
KeyMissing(k) == ~Truthy(k)

----------------------------------------------------------------------------
(* The material-search service, as the collector sees it *)

\* Documents returned to one collect call, in total.
MaxDocs == 2

\* Stability thresholds passed to collect (meV/atom); 100 is the default 0.1 eV.
Thresholds == {50, 100}

\* energy_above_hull values of returned documents (meV/atom).
Energies == {50, 100}

\* Systems for which the service holds documents; every other search returns [].
Stocked == {"Hf-O", "Ti-N"}

\* Systems whose search may raise (network, quota).
Flaky == {"Sn-O", "B-C"}

\* A document whose attribute access raises while the candidate is built
\* (e.g. symmetry is None).
Malformed == [energy_above_hull |-> -1, ok |-> FALSE]

Docs == {[energy_above_hull |-> e, ok |-> TRUE] : e \in Energies} \cup {Malformed}

\* What mpr.materials.summary.search may do for one chemsys: raise, or
\* return a list of documents.
Responses(sys, room) ==
    {[raises |-> FALSE, docs |-> <<>>]}
    \cup (IF sys \in Flaky THEN {[raises |-> TRUE, docs |-> <<>>]} ELSE {})
    \cup (IF sys \in Stocked
          THEN {[raises |-> FALSE, docs |-> d] : d \in (SeqsUpTo(Docs, room) \ {<<>>})}
          ELSE {})

----------------------------------------------------------------------------
(* MaterialsProjectCollector: pure parts *)

IsStableStrict(energy, threshold) == energy < threshold

\* is_stable = energy_above_hull <= stability_threshold
IsStable(energy, threshold) == energy <= threshold

\* CoatingCandidate(...): the fields the pipeline assigns and the one it sorts by.
\* The remaining fields are copied from the document unchanged.
NewCandidate(doc, cls, sys, threshold) ==
    [energy_above_hull |-> doc.energy_above_hull,
     material_class    |-> cls,
     chemical_system   |-> sys,
     is_stable         |-> IsStable(doc.energy_above_hull, threshold)]

Tagged(cat, cls) == [i \in 1..Len(cat) |-> <<cat[i], cls>>]

SystemsToSearchCarbidesFirst(ox, ni, ca) ==
    (IF ca THEN Tagged(CARBIDES, "carbide") ELSE <<>>)
    \o (IF ox THEN Tagged(CONDUCTIVE_OXIDES, "oxide") ELSE <<>>)
    \o (IF ni THEN Tagged(NITRIDES, "nitride") ELSE <<>>)

\* systems_to_search
SystemsToSearch(ox, ni, ca) ==
    (IF ox THEN Tagged(CONDUCTIVE_OXIDES, "oxide") ELSE <<>>)
    \o (IF ni THEN Tagged(NITRIDES, "nitride") ELSE <<>>)
    \o (IF ca THEN Tagged(CARBIDES, "carbide") ELSE <<>>)

\* Number of leading documents processed before one raises.
RECURSIVE GoodPrefix(_)
GoodPrefix(docs) ==
    IF docs = <<>> \/ ~Head(docs).ok THEN 0 ELSE 1 + GoodPrefix(Tail(docs))

\* The candidates one search appends: the for-doc loop runs until a document raises.
Processed(docs, cls, sys, threshold) ==
    [i \in 1..GoodPrefix(docs) |-> NewCandidate(docs[i], cls, sys, threshold)]

\* Stable insertion of r into the ascending table t (after equal keys).
RECURSIVE InsertAsc(_, _)
InsertAsc(t, r) ==
    IF t = <<>> THEN <<r>>
    ELSE IF r.energy_above_hull < Head(t).energy_above_hull THEN <<r>> \o t
    ELSE <<Head(t)>> \o InsertAsc(Tail(t), r)

RECURSIVE SortByEnergy(_)
SortByEnergy(c) ==
    IF c = <<>> THEN <<>> ELSE InsertAsc(SortByEnergy(SubSeq(c, 1, Len(c) - 1)), c[Len(c)])

\* _to_dataframe: one row per candidate, sort_values('energy_above_hull');
\* pandas' default sort keeps equal keys in list order for tables this small.
CandidateFrame(c) == SortByEnergy(c)

KeepCandidates(c) == c

\* self.candidates = []
ResetCandidates(c) == <<>>

----------------------------------------------------------------------------
(* LiteratureDatabase: records *)

\* Python None in an Optional numeric field (NaN in a DataFrame column).
None == -1

\* A year that is not an integer: the string "n/a".
YearText == -2

\* Fields of CoatingPerformanceData declared without a default.
Required == {"doi", "authors", "year", "title", "material", "substrate"}

\* Optional fields read by the queries and analyses; the other optional
\* fields are stored and tabulated the same way and read by no operation.
Optional == {"test_duration_hours", "corrosion_current_uA_cm2", "contact_resistance_mOhm_cm2", "success_rating", "cost_estimate_dollar_m2", "fe_release_ug_cm2_day", "voltage_increase_uV_hr"}

Fields == Required \cup Optional

Entry(doi, year, material, substrate, dur, corr, res, rating, cost, fe, volt) ==
    [doi |-> doi, authors |-> "authors", year |-> year, title |-> "title",
     material |-> material, substrate |-> substrate,
     test_duration_hours |-> dur, corrosion_current_uA_cm2 |-> corr,
     contact_resistance_mOhm_cm2 |-> res, success_rating |-> rating,
     cost_estimate_dollar_m2 |-> cost, fe_release_ug_cm2_day |-> fe,
     voltage_increase_uV_hr |-> volt]

SS316L == <<"S", "S", "3", "1", "6", "L">>

TiGrade1 == <<"T", "i", " ", "G", "r", "a", "d", "e", " ", "1">>

TiN == <<"T", "i", "N">>

NoKeyPapers == <<>>

\* _initialize_with_key_papers: the five entries, in the order they are added.
\* (The accented e of "Magneli" is written plain.)
KeyPapers ==
    << Entry("10.1016/j.ijhydene.2017.07.213", 2017, <<"N", "b", "/", "T", "i", " ", "d", "u", "a", "l", "-", "l", "a", "y", "e", "r">>, SS316L, 300000, 80, 850, 4, 1500, None, 250),
       Entry("10.1016/j.apcatb.2024.124567", 2025, <<"N", "-", "d", "o", "p", "e", "d", " ", "T", "i", "O", "2">>, SS316L, 200000, 120, 1200, 3, 800, 15, 580),
       Entry("10.1149/1945-7111/ac3d02", 2021, <<"T", "i", "4", "O", "7", " ", "(", "M", "a", "g", "n", "e", "l", "i", " ", "p", "h", "a", "s", "e", ")">>, TiGrade1, 500000, 30, 620, 5, 2500, 2, 120),
       Entry("10.1016/j.surfcoat.2019.125089", 2020, TiN, SS316L, 100000, 250, 1500, 2, 600, 50, 1200),
       Entry("10.1016/j.electacta.2021.138456", 2021, <<"C", "r", "N">>, SS316L, 150000, 180, 1150, 3, 750, 25, 850) >>

\* TARGETS of benchmark_against_targets (hundredths).
contact_resistance_target == 1000

corrosion_current_target == 100

test_duration_target == 200000

cost_target == 1000

\* The 10000 hours of identify_research_gaps (hundredths).
long_term_hours == 1000000

----------------------------------------------------------------------------
(* LiteratureDatabase: inputs *)

\* Records added since construction.
MaxAdds == 1

\* A record exactly at every benchmark target; its doi repeats a key paper's.
AtTargets == Entry("10.1016/j.surfcoat.2019.125089", 2021, TiN, TiGrade1, 200000, 100, 1000, 3, 1000, 10, 100)

\* The same record one hundredth beyond every target.
Beyond == Entry("10.9999/beyond", 2019, TiN, SS316L, 199999, 101, 1001, 2, 1001, 10, 100)

\* Only the mandatory fields reported.
MandatoryOnly == Entry("10.9999/bare", 2026, TiN, TiGrade1, None, None, None, None, None, None, None)

\* Records handed to add_entry: boundary cases, each metric missing in turn,
\* and a test of exactly 10000 hours.
ProbeRecords ==
    {AtTargets, Beyond, MandatoryOnly,
     [AtTargets EXCEPT !.contact_resistance_mOhm_cm2 = None],
     [AtTargets EXCEPT !.corrosion_current_uA_cm2 = None],
     [AtTargets EXCEPT !.test_duration_hours = None],
     [AtTargets EXCEPT !.test_duration_hours = long_term_hours],
     [AtTargets EXCEPT !.cost_estimate_dollar_m2 = None],
     [AtTargets EXCEPT !.success_rating = None]}

\* Records for the file round trip: the authors given as "N/A".
TextProbes == {[MandatoryOnly EXCEPT !.authors = "N/A"]}

Restrict(f, S) == [k \in S |-> f[k]]

\* Mappings handed to add_from_dict: complete, mandatory fields only, a
\* mandatory field missing, an unknown key, a year that is not an integer.
Mappings ==
    {AtTargets,
     Restrict(Beyond, Required),
     Restrict(AtTargets, Fields \ {"year"}),
     Restrict(AtTargets, Fields \ {"substrate"}),
     [k \in Required \cup {"impact_factor"} |-> IF k = "impact_factor" THEN 3 ELSE Beyond[k]],
     [AtTargets EXCEPT !.year = YearText]}

\* Parsed CSV files handed to load_from_csv: header only, one row, a row
\* and a file without the substrate column.
Files ==
    {<<>>, <<AtTargets>>, <<MandatoryOnly>>, <<Restrict(Beyond, Fields \ {"substrate"})>>}

\* str filters of query: None (unset) or a pattern of letters, digits,
\* spaces, '/', '-' and parentheses.
NonePattern == <<"<None>">>

MaterialPatterns == {NonePattern, <<"t", "i", "n">>, <<"T", "i", "4", "O", "7", " ", "(", "M", "a", "g", "n", "e", "l", "i", " ", "p", "h", "a", "s", "e", ")">>, <<"(">>}

SubstratePatterns == {NonePattern, <<"t", "i">>}

AllFilters ==
    [material : MaterialPatterns, substrate : SubstratePatterns,
     min_test_duration : {None, test_duration_target},
     max_corrosion_current : {None, corrosion_current_target},
     max_contact_resistance : {None, contact_resistance_target},
     min_success_rating : {None, 3}]

\* Filters set in one query call.
MaxFiltersSet == 2

SetFilters(f) ==
    {k \in {"material", "substrate"} : f[k] # NonePattern}
    \cup {k \in {"min_test_duration", "max_corrosion_current", "max_contact_resistance", "min_success_rating"} : f[k] # None}

Filters == {f \in AllFilters : Cardinality(SetFilters(f)) <= MaxFiltersSet}

----------------------------------------------------------------------------
(* LiteratureDatabase: pure parts *)

NoCall == [name |-> "none"]

Frame(rows) == [raised |-> "", rows |-> rows]

Raised(err) == [raised |-> err, rows |-> <<>>]

\* CoatingPerformanceData(**data): a TypeError when a field without default
\* is not given or a key names no field; values are stored as given.
Constructible(data) == Required \subseteq DOMAIN data /\ DOMAIN data \subseteq Fields

FromDict(data) == [k \in Fields |-> IF k \in DOMAIN data THEN data[k] ELSE None]

Reverse(s) == [i \in 1..Len(s) |-> s[Len(s) + 1 - i]]

RECURSIVE InsertByYear(_, _)
InsertByYear(t, r) ==
    IF t = <<>> THEN <<r>>
    ELSE IF r.year < Head(t).year THEN <<r>> \o t
    ELSE <<Head(t)>> \o InsertByYear(Tail(t), r)

RECURSIVE SortByYearAsc(_)
SortByYearAsc(e) ==
    IF e = <<>> THEN <<>> ELSE InsertByYear(SortByYearAsc(SubSeq(e, 1, Len(e) - 1)), e[Len(e)])

\* sort_values('year', ascending=False): pandas reverses, sorts ascending and
\* reverses again, so equal years keep their list order.
SortByYearDesc(e) == Reverse(SortByYearAsc(Reverse(e)))

\* A year column holding both int and str cannot be ordered.
MixedYears(e) ==
    /\ \E i \in 1..Len(e) : e[i].year = YearText
    /\ \E i \in 1..Len(e) : e[i].year # YearText

\* to_dataframe
ToDataFrame(e) ==
    IF e = <<>> THEN Frame(<<>>)
    ELSE IF MixedYears(e) THEN Raised("TypeError")
    ELSE Frame(SortByYearDesc(e))

UPPER == <<"A", "B", "C", "D", "E", "F", "G", "H", "I", "J", "K", "L", "M", "N", "O", "P", "Q", "R", "S", "T", "U", "V", "W", "X", "Y", "Z">>

LOWER == <<"a", "b", "c", "d", "e", "f", "g", "h", "i", "j", "k", "l", "m", "n", "o", "p", "q", "r", "s", "t", "u", "v", "w", "x", "y", "z">>

Alphabet == Range(UPPER) \cup Range(LOWER) \cup {"0", "1", "2", "3", "4", "5", "6", "7", "8", "9", " ", "/", "-", "(", ")"}

LowerTable == [c \in Alphabet |-> IF \E i \in 1..26 : UPPER[i] = c THEN LOWER[CHOOSE i \in 1..26 : UPPER[i] = c] ELSE c]

\* case=False
Lower(c) == LowerTable[c]

IsParen(c) == c = "(" \/ c = ")"

NotParen(c) == ~IsParen(c)

\* Nesting depth after each prefix of the pattern; -1 once a ')' has no '('.
RECURSIVE Depth(_, _)
Depth(p, d) ==
    IF d < 0 \/ p = <<>> THEN d
    ELSE Depth(Tail(p), IF Head(p) = "(" THEN d + 1 ELSE IF Head(p) = ")" THEN d - 1 ELSE d)

\* re.compile succeeds
Compiles(p) == Depth(p, 0) = 0

OccursAt(atoms, text, off) == \A i \in 1..Len(atoms) : Lower(atoms[i]) = Lower(text[off + i])

LiteralContains(p, text) == \E off \in 0..(Len(text) - Len(p)) : OccursAt(p, text, off)

\* Series.str.contains(p, case=False, na=False): p is a regular expression
\* (regex=True is the default), so parentheses group and match no character.
Contains(p, text) ==
    LET atoms == SelectSeq(p, NotParen)
    IN \E off \in 0..(Len(text) - Len(atoms)) : OccursAt(atoms, text, off)

\* `if material:` / `if substrate:`
PatternSet(p) == p # NonePattern /\ p # <<>>

\* `if ... is not None:`
NumberSet(v) == v # None

\* column >= bound: a comparison with NaN is False
GE(v, bound) == v # None /\ v >= bound

LEMissingPasses(v, bound) == v <= bound

\* column <= bound: a comparison with NaN is False
LE(v, bound) == v # None /\ v <= bound

AnyFilterSet(f) ==
    \/ PatternSet(f.material) \/ PatternSet(f.substrate)
    \/ NumberSet(f.min_test_duration) \/ NumberSet(f.max_corrosion_current)
    \/ NumberSet(f.max_contact_resistance) \/ NumberSet(f.min_success_rating)

\* The conjunction of the masks query applies one after the other.
Keeps(f, r) ==
    /\ PatternSet(f.material) => Contains(f.material, r.material)
    /\ PatternSet(f.substrate) => Contains(f.substrate, r.substrate)
    /\ NumberSet(f.min_test_duration) => GE(r.test_duration_hours, f.min_test_duration)
    /\ NumberSet(f.max_corrosion_current) => LE(r.corrosion_current_uA_cm2, f.max_corrosion_current)
    /\ NumberSet(f.max_contact_resistance) => LE(r.contact_resistance_mOhm_cm2, f.max_contact_resistance)
    /\ NumberSet(f.min_success_rating) => GE(r.success_rating, f.min_success_rating)

\* query: the empty DataFrame has no columns, so the first filter that is
\* set raises KeyError on it; a pattern that does not compile raises re.error.
QueryFrame(e, f) ==
    LET df == ToDataFrame(e) IN
    IF df.raised # "" THEN df
    ELSE IF df.rows = <<>> THEN (IF AnyFilterSet(f) THEN Raised("KeyError") ELSE df)
    ELSE IF PatternSet(f.material) /\ ~Compiles(f.material) THEN Raised("re.error")
    ELSE IF PatternSet(f.substrate) /\ ~Compiles(f.substrate) THEN Raised("re.error")
    ELSE Frame(SelectSeq(df.rows, LAMBDA r : Keeps(f, r)))

Benchmarked(r) ==
    LET res  == LE(r.contact_resistance_mOhm_cm2, contact_resistance_target)
        corr == LE(r.corrosion_current_uA_cm2, corrosion_current_target)
        dur  == GE(r.test_duration_hours, test_duration_target)
        cost == LE(r.cost_estimate_dollar_m2, cost_target)
    IN [entry |-> r,
        meets_resistance_target |-> res,
        meets_corrosion_target |-> corr,
        meets_duration_target |-> dur,
        meets_cost_target |-> cost,
        meets_all_targets |-> res /\ corr /\ dur /\ cost]

\* benchmark_against_targets
BenchmarkFrame(e) ==
    LET df == ToDataFrame(e) IN
    IF df.raised # "" THEN df
    ELSE Frame([i \in 1..Len(df.rows) |-> Benchmarked(df.rows[i])])

\* A dict returned without an exception
Dict(d) == [raised |-> "", rows |-> <<>>, dict |-> d]

Column(rows, k) == [i \in 1..Len(rows) |-> rows[i][k]]

\* A numeric column of the table without its NaN cells
Present(rows, k) == SelectSeq(Column(rows, k), LAMBDA v : v # None)

RECURSIVE Sum(_)
Sum(vals) == IF vals = <<>> THEN 0 ELSE Head(vals) + Sum(Tail(vals))

\* Series.mean(): the sum of the cells present over their number (NaN, the
\* quotient 0/0, when none is present).
Mean(vals) == [sum |-> Sum(vals), count |-> Len(vals)]

\* Series.max() / Series.min(): NaN when no cell is present.
Max(vals) == IF vals = <<>> THEN None ELSE CHOOSE v \in Range(vals) : \A w \in Range(vals) : w <= v

Min(vals) == IF vals = <<>> THEN None ELSE CHOOSE v \in Range(vals) : \A w \in Range(vals) : v <= w

\* Series.value_counts().to_dict()
ValueCounts(vals) == [v \in Range(vals) |-> Cardinality({i \in 1..Len(vals) : vals[i] = v})]

\* get_summary_statistics
SummaryStatistics(e) ==
    LET df == ToDataFrame(e) IN
    IF df.raised # "" THEN df
    ELSE IF df.rows = <<>> THEN Dict([error |-> "No entries in database"])
    ELSE Dict([total_entries |-> Len(df.rows),
               year_range |-> <<Min(Present(df.rows, "year")), Max(Present(df.rows, "year"))>>,
               materials_tested |-> Cardinality(Range(Column(df.rows, "material"))),
               avg_test_duration_hours |-> Mean(Present(df.rows, "test_duration_hours")),
               max_test_duration_hours |-> Max(Present(df.rows, "test_duration_hours")),
               avg_corrosion_current |-> Mean(Present(df.rows, "corrosion_current_uA_cm2")),
               best_corrosion_current |-> Min(Present(df.rows, "corrosion_current_uA_cm2")),
               avg_contact_resistance |-> Mean(Present(df.rows, "contact_resistance_mOhm_cm2")),
               best_contact_resistance |-> Min(Present(df.rows, "contact_resistance_mOhm_cm2")),
               avg_cost_estimate |-> Mean(Present(df.rows, "cost_estimate_dollar_m2")),
               success_rating_distribution |-> ValueCounts(Present(df.rows, "success_rating"))])

recommendations ==
    << "Expand literature search to find more long-duration test data (>10,000 hours)",
       "Collect ion leaching data (critical for membrane degradation prediction)",
       "Focus on cost-effective earth-abundant materials",
       "Find failure mode analysis and post-mortem characterization data" >>

promising_classes ==
    << <<"W", "C", " ", "(", "t", "u", "n", "g", "s", "t", "e", "n", " ", "c", "a", "r", "b", "i", "d", "e", ")">>,
       <<"T", "a", "C", " ", "(", "t", "a", "n", "t", "a", "l", "u", "m", " ", "c", "a", "r", "b", "i", "d", "e", ")">>,
       <<"N", "b", "2", "O", "5">>,
       <<"I", "r", "O", "2">>,
       <<"R", "u", "O", "2">>,
       <<"M", "u", "l", "t", "i", "l", "a", "y", "e", "r", " ", "o", "x", "i", "d", "e", "/", "n", "i", "t", "r", "i", "d", "e">>,
       <<"G", "r", "a", "p", "h", "e", "n", "e", "-", "e", "n", "h", "a", "n", "c", "e", "d", " ", "c", "o", "a", "t", "i", "n", "g", "s">>,
       <<"M", "A", "X", " ", "p", "h", "a", "s", "e", " ", "m", "a", "t", "e", "r", "i", "a", "l", "s">> >>

\* _identify_untested_classes: the promising classes that occur in no
\* material of the table, compared in lower case.
UntestedClasses(rows) ==
    SelectSeq(promising_classes, LAMBDA m : ~\E i \in 1..Len(rows) : LiteralContains(m, rows[i].material))

\* column < bound: a comparison with NaN is False
LT(v, bound) == v # None /\ v < bound

\* Series.isna().sum()
CountMissing(rows, k) == Cardinality({i \in 1..Len(rows) : rows[i][k] = None})

\* identify_research_gaps: no guard for the empty DataFrame, which has no
\* columns, so the first column access raises KeyError.
ResearchGaps(e) ==
    LET df == ToDataFrame(e) IN
    IF df.raised # "" THEN df
    ELSE IF df.rows = <<>> THEN Raised("KeyError")
    ELSE Dict([missing_long_term_data |-> Len(SelectSeq(df.rows, LAMBDA r : LT(r.test_duration_hours, long_term_hours))),
               missing_cost_data |-> CountMissing(df.rows, "cost_estimate_dollar_m2"),
               missing_ion_leaching_data |-> CountMissing(df.rows, "fe_release_ug_cm2_day"),
               missing_degradation_rates |-> CountMissing(df.rows, "voltage_increase_uV_hr"),
               untested_material_classes |-> UntestedClasses(df.rows),
               limited_long_term_validation |->
                   [count |-> Len(SelectSeq(df.rows, LAMBDA r : GE(r.test_duration_hours, long_term_hours))),
                    total |-> Len(df.rows)],
               recommendations |-> recommendations])

\* Python None in a str field.
NoneText == "<None>"

TextFields == {"doi", "authors", "title"}

SearchedFields == {"material", "substrate"}

\* A cell of the file: nothing between the delimiters, a numeral, or text.
EmptyCell == [kind |-> "empty", number |-> 0, text |-> "", chars |-> <<>>]

NumberCell(v) == [kind |-> "number", number |-> v, text |-> "", chars |-> <<>>]

TextCell(t) == [kind |-> "text", number |-> 0, text |-> t, chars |-> <<>>]

CharsCell(s) == [kind |-> "chars", number |-> 0, text |-> "", chars |-> s]

\* DataFrame.to_csv: NaN, None and the empty string are all written as
\* nothing; a number as its numeral (an int column that holds a NaN is a
\* float column, 3 is written 3.0); a str year as its text.
WriteCell(k, v) ==
    IF k \in SearchedFields THEN (IF v = <<>> THEN EmptyCell ELSE CharsCell(v))
    ELSE IF k \in TextFields THEN (IF v = NoneText \/ v = "" THEN EmptyCell ELSE TextCell(v))
    ELSE IF v = None THEN EmptyCell
    ELSE IF v = YearText THEN TextCell("n/a")
    ELSE NumberCell(v)

\* The texts pd.read_csv takes for a missing value (its default na_values)
\* among those a cell of the model can hold.
NaTexts == {"", "N/A", "n/a", "NA", "NULL", "null", "NaN", "nan", "None"}

NaChars == {<<"N", "A">>, <<"N", "/", "A">>, <<"n", "/", "a">>, <<"N", "a", "N">>, <<"n", "a", "n">>}

\* None of the field's kind
Missing(k) == IF k \in SearchedFields THEN NonePattern ELSE IF k \in TextFields THEN NoneText ELSE None

\* pd.read_csv and `None if pd.isna(v) else v`
ReadCell(k, c) ==
    IF c.kind = "empty" THEN Missing(k)
    ELSE IF c.kind = "text" THEN (IF c.text \in NaTexts THEN Missing(k) ELSE c.text)
    ELSE IF c.kind = "chars" THEN (IF c.chars \in NaChars THEN Missing(k) ELSE c.chars)
    ELSE c.number

NoFile == [exists |-> FALSE, columns |-> {}, lines |-> <<>>]

\* df.to_csv(filepath, index=False): a header line of the frame's columns
\* (none for pd.DataFrame()) and one line per row, in the frame's order.
ToCsv(rows) ==
    [exists |-> TRUE,
     columns |-> IF rows = <<>> THEN {} ELSE Fields,
     lines |-> [i \in 1..Len(rows) |-> [k \in Fields |-> WriteCell(k, rows[i][k])]]]

\* pd.read_csv(filepath) and the dicts load_from_csv makes of its rows: a
\* file without columns raises EmptyDataError.
ReadCsv(file) ==
    IF ~file.exists THEN Raised("FileNotFoundError")
    ELSE IF file.columns = {} THEN Raised("EmptyDataError")
    ELSE Frame([i \in 1..Len(file.lines) |-> [k \in file.columns |-> ReadCell(k, file.lines[i][k])]])

\* File paths handed to save_to_csv, and os.path.dirname of each.
Paths == {"data/literature/coatings.csv", "coatings.csv"}

DirName(path) == IF path = "coatings.csv" THEN "" ELSE "data/literature"

EntriesSortedInPlace(e) == SortByYearDesc(e)

\* What to_dataframe leaves in self.entries: the rows are copied with asdict
\* and sort_values returns a new frame, so the list keeps its order.
EntriesAfterTabulation(e) == e

AppendUnlessKnown(e, entry) ==
    IF \E i \in 1..Len(e) : e[i].doi = entry.doi THEN e ELSE Append(e, entry)

\* self.entries.append(entry)
AppendEntry(e, entry) == Append(e, entry)

\* The rows load_from_csv appends: each row that constructs, in file order.
RECURSIVE Loaded(_)
Loaded(file) ==
    IF file = <<>> THEN <<>>
    ELSE (IF Constructible(Head(file)) THEN <<FromDict(Head(file))>> ELSE <<>>) \o Loaded(Tail(file))

----------------------------------------------------------------------------
(* MaterialsProjectCollector: operations *)

NoRun == [threshold |-> 0, oxides |-> FALSE, nitrides |-> FALSE, carbides |-> FALSE, verbose |-> FALSE]

Init ==
    /\ pc = "none"
    /\ api_key = NoCredential
    /\ constructed = "never"
    /\ candidates = <<>>
    /\ run = NoRun
    /\ systems = <<>>
    /\ idx = 1
    /\ client = "unopened"
    /\ clientKey = NoCredential
    /\ searched = <<>>
    /\ warned = <<>>
    /\ failed = <<>>
    /\ appended = <<>>
    /\ docsSeen = 0
    /\ outcome = "none"
    /\ returned = <<>>
    /\ returnedThreshold = 0
    /\ db = "none"
    /\ entries = <<>>
    /\ call = NoCall
    /\ result = Frame(<<>>)
    /\ adds = 0
    /\ disk = NoFile
    /\ exported = <<>>

\* MaterialsProjectCollector(api_key=param) with MP_API_KEY = env
Construct(param, env) ==
    /\ pc = "none" /\ db = "none"
    /\ LET key == ResolveKey(param, env) IN
         /\ api_key' = key
         /\ IF KeyMissing(key)
            THEN /\ constructed' = "ValueError"
                 /\ pc' = "none"
            ELSE /\ constructed' = "ok"
                 /\ pc' = "idle"
    /\ candidates' = <<>>
    /\ UNCHANGED <<run, systems, idx, client, clientKey, searched, warned, failed,
                   appended, docsSeen, outcome, returned, returnedThreshold, litvars>>

\* collect_coating_candidates, up to and including the entry of the with block
CollectBegin(threshold, ox, ni, ca, verbose) ==
    /\ pc = "idle"
    /\ candidates' = ResetCandidates(candidates)
    /\ run' = [threshold |-> threshold, oxides |-> ox, nitrides |-> ni,
               carbides |-> ca, verbose |-> verbose]
    /\ systems' = SystemsToSearch(ox, ni, ca)
    /\ idx' = 1
    /\ client' = "open"
    /\ clientKey' = api_key
    /\ searched' = <<>>
    /\ warned' = <<>>
    /\ failed' = <<>>
    /\ appended' = <<>>
    /\ docsSeen' = 0
    /\ outcome' = "running"
    /\ pc' = "searching"
    /\ UNCHANGED <<api_key, constructed, returned, returnedThreshold, litvars>>

\* One iteration of the for loop: the search, the processing of its
\* documents, and the except clause.
SearchStep ==
    /\ pc = "searching"
    /\ idx <= Len(systems)
    /\ \E resp \in Responses(systems[idx][1], MaxDocs - docsSeen) :
       LET sys == systems[idx][1]
           cls == systems[idx][2]
           new == Processed(resp.docs, cls, sys, run.threshold)
           raised == resp.raises \/ GoodPrefix(resp.docs) < Len(resp.docs)
       IN
         /\ searched' = Append(searched, sys)
         /\ candidates' = candidates \o new
         /\ appended' = appended \o new
         /\ failed' = IF raised THEN Append(failed, sys) ELSE failed
         /\ warned' = IF raised THEN Append(warned, sys) ELSE warned
         /\ docsSeen' = docsSeen + Len(resp.docs)
    /\ idx' = idx + 1
    /\ UNCHANGED <<pc, api_key, constructed, run, systems, client, clientKey,
                   outcome, returned, returnedThreshold, litvars>>

\* The end of the with block, _to_dataframe and the verbose summary, which
\* reads df['is_stable']: a KeyError on the column-less empty DataFrame.
CollectEnd ==
    /\ pc = "searching"
    /\ idx > Len(systems)
    /\ client' = "closed"
    /\ pc' = "idle"
    /\ LET df == CandidateFrame(candidates) IN
         IF run.verbose /\ df = <<>>
         THEN /\ outcome' = "KeyError"
              /\ UNCHANGED <<returned, returnedThreshold>>
         ELSE /\ outcome' = "returned"
              /\ returned' = df
              /\ returnedThreshold' = run.threshold
    /\ UNCHANGED <<api_key, constructed, candidates, run, systems, idx,
                   clientKey, searched, warned, failed, appended, docsSeen, litvars>>

----------------------------------------------------------------------------
(* LiteratureDatabase: operations *)

\* LiteratureDatabase(): __init__ and _initialize_with_key_papers
NewLiteratureDatabase ==
    /\ db = "none" /\ pc = "none" /\ constructed = "never"
    /\ db' = "live"
    /\ entries' = KeyPapers
    /\ call' = [name |-> "__init__"]
    /\ result' = Frame(<<>>)
    /\ adds' = 0
    /\ UNCHANGED <<fsvars, mpvars>>

\* add_entry(entry)
AddEntry(entry) ==
    /\ db = "live" /\ adds < MaxAdds
    /\ entries' = AppendEntry(entries, entry)
    /\ call' = [name |-> "add_entry", entry |-> entry]
    /\ result' = Frame(<<>>)
    /\ adds' = adds + 1
    /\ UNCHANGED <<db, fsvars, mpvars>>

\* add_from_dict(data)
AddFromDict(data) ==
    /\ db = "live" /\ adds < MaxAdds
    /\ call' = [name |-> "add_from_dict", data |-> data, before |-> entries]
    /\ IF Constructible(data)
       THEN /\ entries' = AppendEntry(entries, FromDict(data))
            /\ result' = Frame(<<>>)
            /\ adds' = adds + 1
       ELSE /\ result' = Raised("TypeError")
            /\ UNCHANGED <<entries, adds>>
    /\ UNCHANGED <<db, fsvars, mpvars>>

\* load_from_csv(filepath), the file already parsed into rows
LoadFromCsv(file) ==
    /\ db = "live" /\ adds + Len(file) <= MaxAdds
    /\ entries' = Loaded(file)
    /\ call' = [name |-> "load_from_csv", file |-> file]
    /\ result' = Frame(<<>>)
    /\ adds' = adds + Len(file)
    /\ UNCHANGED <<db, fsvars, mpvars>>

\* save_to_csv(filepath): os.makedirs('') raises FileNotFoundError when the
\* path has no directory part.
SaveToCsv(path) ==
    /\ db = "live"
    /\ call' = [name |-> "save_to_csv", path |-> path]
    /\ LET df == ToDataFrame(entries) IN
         IF df.raised # ""
         THEN /\ result' = df
              /\ UNCHANGED fsvars
         ELSE IF DirName(path) = ""
         THEN /\ result' = Raised("FileNotFoundError")
              /\ UNCHANGED fsvars
         ELSE /\ result' = Frame(<<>>)
              /\ disk' = ToCsv(df.rows)
              /\ exported' = entries
    /\ entries' = EntriesAfterTabulation(entries)
    /\ UNCHANGED <<db, adds, mpvars>>

\* load_from_csv(filepath) of the path save_to_csv wrote to: read_csv comes
\* before `self.entries = []`, so an exception there leaves the collection.
LoadSavedCsv ==
    /\ db = "live"
    /\ call' = [name |-> "load_from_csv", saved |-> TRUE]
    /\ LET df == ReadCsv(disk) IN
         IF df.raised # ""
         THEN /\ result' = df
              /\ UNCHANGED entries
         ELSE /\ result' = Frame(<<>>)
              /\ entries' = Loaded(df.rows)
    /\ UNCHANGED <<db, adds, fsvars, mpvars>>

\* to_dataframe()
ToTable ==
    /\ db = "live"
    /\ call' = [name |-> "to_dataframe"]
    /\ result' = ToDataFrame(entries)
    /\ entries' = EntriesAfterTabulation(entries)
    /\ UNCHANGED <<db, adds, fsvars, mpvars>>

\* query(...)
Query(f) ==
    /\ db = "live"
    /\ call' = [name |-> "query", filters |-> f]
    /\ result' = QueryFrame(entries, f)
    /\ entries' = EntriesAfterTabulation(entries)
    /\ UNCHANGED <<db, adds, fsvars, mpvars>>

\* benchmark_against_targets()
BenchmarkAgainstTargets ==
    /\ db = "live"
    /\ call' = [name |-> "benchmark_against_targets"]
    /\ result' = BenchmarkFrame(entries)
    /\ entries' = EntriesAfterTabulation(entries)
    /\ UNCHANGED <<db, adds, fsvars, mpvars>>

\* get_summary_statistics()
GetSummaryStatistics ==
    /\ db = "live"
    /\ call' = [name |-> "get_summary_statistics"]
    /\ result' = SummaryStatistics(entries)
    /\ entries' = EntriesAfterTabulation(entries)
    /\ UNCHANGED <<db, adds, fsvars, mpvars>>

\* identify_research_gaps()
IdentifyResearchGaps ==
    /\ db = "live"
    /\ call' = [name |-> "identify_research_gaps"]
    /\ result' = ResearchGaps(entries)
    /\ entries' = EntriesAfterTabulation(entries)
    /\ UNCHANGED <<db, adds, fsvars, mpvars>>

Next ==
    \/ \E param \in Credentials, env \in Credentials : Construct(param, env)
    \/ \E t \in Thresholds, ox \in BOOLEAN, ni \in BOOLEAN, ca \in BOOLEAN, v \in BOOLEAN : CollectBegin(t, ox, ni, ca, v)
    \/ SearchStep
    \/ CollectEnd
    \/ NewLiteratureDatabase
    \/ \E entry \in ProbeRecords : AddEntry(entry)
    \/ \E data \in Mappings : AddFromDict(data)
    \/ \E file \in Files : LoadFromCsv(file)
    \/ ToTable
    \/ \E f \in Filters : Query(f)
    \/ BenchmarkAgainstTargets
    \/ GetSummaryStatistics
    \/ IdentifyResearchGaps

Spec == Init /\ [][Next]_vars

\* The database with its persistence: the operations that change the
\* collection or the file. (The read-only operations change neither.)
NextPersistence ==
    \/ NewLiteratureDatabase
    \/ \E entry \in ProbeRecords \cup TextProbes : AddEntry(entry)
    \/ \E data \in Mappings : AddFromDict(data)
    \/ \E file \in Files : LoadFromCsv(file)
    \/ \E path \in Paths : SaveToCsv(path)
    \/ LoadSavedCsv

SpecPersistence == Init /\ [][NextPersistence]_vars

----------------------------------------------------------------------------
(* Claims about MaterialsProjectCollector *)

SystemNames(sysList) == [i \in 1..Len(sysList) |-> sysList[i][1]]

CallEnded == pc = "idle" /\ outcome \in {"returned", "KeyError"}

\* C1: when a search of one chemical system fails during collect(), every
\* system after it is still searched, collect returns normally, and a
\* warning naming the failed system is emitted.
C1_FailureDoesNotAbort ==
    (CallEnded /\ failed # <<>>) =>
        /\ searched = SystemNames(systems)
        /\ warned = failed
        /\ outcome = "returned"

\* C2: collect() with all three inclusion flags false leaves the candidate
\* collection empty, opens no client and issues no search.
C2_NoFlagsNoContact ==
    (outcome # "none" /\ ~run.oxides /\ ~run.nitrides /\ ~run.carbides) =>
        /\ candidates = <<>>
        /\ client = "unopened"
        /\ searched = <<>>

\* C3: the candidate collection holds exactly the records appended by the
\* most recent collect() invocation; nothing of an earlier one survives.
C3_ReplaceNotAccumulate == candidates = appended

\* A later invocation, after one that returned records, has appended
\* records of its own and holds only those.
C3_Witness ==
    /\ pc = "searching" /\ idx > Len(systems)
    /\ returned # <<>>
    /\ appended # <<>>
    /\ Len(candidates) < Len(returned)

ClassOf(sys) ==
    IF sys \in Range(CONDUCTIVE_OXIDES) THEN "oxide"
    ELSE IF sys \in Range(NITRIDES) THEN "nitride"
    ELSE "carbide"

DerivedFor(c, threshold) ==
    /\ c.is_stable <=> (c.energy_above_hull <= threshold)
    /\ c.material_class = ClassOf(c.chemical_system)

\* C4: every candidate is stable iff its energy above hull is at most the
\* threshold of the run that collected it (boundary included) and carries
\* the class and chemical system of the search that returned it; the table
\* an earlier run returned keeps the flags of its own threshold while and
\* after a later run with another threshold collects.
C4_StabilityDerived ==
    /\ \A i \in 1..Len(candidates) :
          /\ DerivedFor(candidates[i], run.threshold)
          /\ candidates[i].chemical_system \in Range(searched)
    /\ \A i \in 1..Len(returned) : DerivedFor(returned[i], returnedThreshold)

\* A later run with a lower threshold holds an unstable record of energy
\* 100 while the earlier table still shows energy 100 as stable, and the
\* later run's record at exactly its threshold is stable.
C4_Witness ==
    /\ pc = "searching"
    /\ run.threshold = 50 /\ returnedThreshold = 100
    /\ \E i \in 1..Len(returned) : returned[i].energy_above_hull = 100 /\ returned[i].is_stable
    /\ \E i \in 1..Len(candidates) : candidates[i].energy_above_hull = 100 /\ ~candidates[i].is_stable
    /\ \E i \in 1..Len(candidates) : candidates[i].energy_above_hull = 50 /\ candidates[i].is_stable

\* C5: a constructor call whose credential resolves to nothing or to the
\* empty string fails with the configuration error and leaves no collector;
\* every collector has a non-empty credential, and every client and search
\* uses one.
C5_CredentialRequired ==
    /\ pc # "none" => (constructed = "ok" /\ Truthy(api_key))
    /\ (constructed # "never" /\ ~Truthy(api_key)) => (constructed = "ValueError" /\ pc = "none")
    /\ (client # "unopened" \/ searched # <<>>) => Truthy(clientKey)

\* The constructor was called with no usable credential (an empty string
\* resolved) and raised.
C5_Witness == constructed = "ValueError" /\ api_key = "" /\ pc = "none"

----------------------------------------------------------------------------
(* Claims about the derived tables and LiteratureDatabase *)

YearDescending(rows) == \A i \in 1..(Len(rows) - 1) : rows[i].year >= rows[i + 1].year

EnergyAscending(rows) ==
    \A i \in 1..(Len(rows) - 1) : rows[i].energy_above_hull <= rows[i + 1].energy_above_hull

\* C6: for a collection of any size N the derived table never fails, has
\* exactly N rows and is sorted by its key (literature: year descending,
\* candidates: energy above hull ascending), computed from the collection
\* as it is at the call.
C6_TableRowsAndOrder ==
    /\ call.name = "to_dataframe" =>
          /\ result.raised = ""
          /\ Len(result.rows) = Len(entries)
          /\ Range(result.rows) = Range(entries)
          /\ YearDescending(result.rows)
    /\ (CallEnded /\ outcome = "returned") =>
          /\ Len(returned) = Len(candidates)
          /\ Range(returned) = Range(candidates)
          /\ EnergyAscending(returned)

\* The filter semantics the claim states: substring match without regard to
\* case for the two text filters, inclusive bounds for the numeric ones.
Matches(f, r) ==
    /\ PatternSet(f.material) => LiteralContains(f.material, r.material)
    /\ PatternSet(f.substrate) => LiteralContains(f.substrate, r.substrate)
    /\ f.min_test_duration # None => (r.test_duration_hours # None /\ r.test_duration_hours >= f.min_test_duration)
    /\ f.max_corrosion_current # None => (r.corrosion_current_uA_cm2 # None /\ r.corrosion_current_uA_cm2 <= f.max_corrosion_current)
    /\ f.max_contact_resistance # None => (r.contact_resistance_mOhm_cm2 # None /\ r.contact_resistance_mOhm_cm2 <= f.max_contact_resistance)
    /\ f.min_success_rating # None => (r.success_rating # None /\ r.success_rating >= f.min_success_rating)

\* C7: query() returns the rows of the full table, in table order, that
\* match every filter that is set (all of them when none is set): each
\* filter excludes all and only its non-matching rows, and two filters give
\* the intersection of their separate results.
C7_QueryFilters ==
    call.name = "query" =>
        /\ result.raised = ""
        /\ result.rows = SelectSeq(ToDataFrame(entries).rows, LAMBDA r : Matches(call.filters, r))

\* C8: when a numeric filter of query() is set, no record whose value for
\* the filtered field is absent is in the result.
C8_MissingNeverMatches ==
    (call.name = "query" /\ result.raised = "") =>
        \A i \in 1..Len(result.rows) :
            /\ call.filters.min_test_duration # None => result.rows[i].test_duration_hours # None
            /\ call.filters.max_corrosion_current # None => result.rows[i].corrosion_current_uA_cm2 # None
            /\ call.filters.max_contact_resistance # None => result.rows[i].contact_resistance_mOhm_cm2 # None
            /\ call.filters.min_success_rating # None => result.rows[i].success_rating # None

\* A query with a maximum contact resistance over a collection that holds a
\* record without contact resistance returned other records and not that one.
C8_Witness ==
    /\ call.name = "query" /\ result.raised = ""
    /\ call.filters.max_contact_resistance # None
    /\ \E i \in 1..Len(entries) : entries[i].contact_resistance_mOhm_cm2 = None
    /\ result.rows # <<>>
    /\ Len(result.rows) < Len(entries)

\* C9: benchmark_against_targets() yields one row per record; its flags are
\* contact resistance <= 10, corrosion current <= 1, test duration >= 2000
\* and cost <= 10 (hundredths: 1000, 100, 200000, 1000), an absent metric
\* failing its target, and meets_all_targets is their conjunction.
C9_BenchmarkFlags ==
    call.name = "benchmark_against_targets" =>
        /\ result.raised = ""
        /\ Len(result.rows) = Len(entries)
        /\ Range(entries) = {result.rows[i].entry : i \in 1..Len(result.rows)}
        /\ \A i \in 1..Len(result.rows) :
              LET b == result.rows[i]
                  r == b.entry
              IN /\ b.meets_resistance_target <=> (r.contact_resistance_mOhm_cm2 # None /\ r.contact_resistance_mOhm_cm2 <= 1000)
                 /\ b.meets_corrosion_target <=> (r.corrosion_current_uA_cm2 # None /\ r.corrosion_current_uA_cm2 <= 100)
                 /\ b.meets_duration_target <=> (r.test_duration_hours # None /\ r.test_duration_hours >= 200000)
                 /\ b.meets_cost_target <=> (r.cost_estimate_dollar_m2 # None /\ r.cost_estimate_dollar_m2 <= 1000)
                 /\ b.meets_all_targets <=> (b.meets_resistance_target /\ b.meets_corrosion_target /\ b.meets_duration_target /\ b.meets_cost_target)

\* A mapping the claim calls invalid: a mandatory field is missing or the
\* year is not an integer.
Invalid(data) == ~(Required \subseteq DOMAIN data) \/ data.year = YearText

\* C10: add_from_dict fails whenever a mandatory field is missing or a value
\* cannot be coerced to its declared type; a failure leaves the collection
\* unchanged and a success appends exactly one record.
C10_AddFromDictValidates ==
    call.name = "add_from_dict" =>
        /\ Invalid(call.data) => result.raised # ""
        /\ result.raised # "" => entries = call.before
        /\ result.raised = "" => (Len(entries) = Len(call.before) + 1 /\ SubSeq(entries, 1, Len(call.before)) = call.before)

\* C11: every add_entry call, and every add_from_dict call that constructs
\* its record, leaves the collection as it was followed by the new record;
\* a failed add_from_dict leaves it as it was. Nothing is removed, reordered,
\* merged or rejected, whether or not the doi is already present.
C11_AppendOnly ==
    [][/\ call'.name = "add_entry" =>
             /\ entries' = Append(entries, call'.entry)
             /\ Len(entries') = Len(entries) + 1
       /\ call'.name = "add_from_dict" =>
             entries' = IF result'.raised = "" THEN Append(entries, FromDict(call'.data)) ELSE entries]_vars

\* A record whose doi a key paper already carries was added: six records,
\* the five key papers first and in their order, the doi present twice.
C11_Witness ==
    /\ call.name = "add_entry"
    /\ Len(entries) = Len(KeyPapers) + 1
    /\ SubSeq(entries, 1, Len(KeyPapers)) = KeyPapers
    /\ entries[Len(entries)] = call.entry
    /\ \E i \in 1..Len(KeyPapers) : entries[i].doi = call.entry.doi

ReadOnlyOperations ==
    {"to_dataframe", "query", "benchmark_against_targets", "get_summary_statistics", "identify_research_gaps"}

\* C12: to_dataframe, query, benchmark_against_targets,
\* get_summary_statistics and identify_research_gaps leave the collection
\* exactly as it was, and a call that repeats the previous call (same
\* operation, same arguments, collection unchanged in between) has the same
\* result.
C12_ReadOnly ==
    [][call'.name \in ReadOnlyOperations =>
          /\ entries' = entries
          /\ (call'.name = call.name /\ call' = call) => result' = result]_vars

\* identify_research_gaps returned its dict over the key papers and one
\* added record, and the collection still has its insertion order, which
\* is not the table's order.
C12_Witness ==
    /\ call.name = "identify_research_gaps" /\ result.raised = ""
    /\ Len(entries) = Len(KeyPapers) + 1
    /\ SubSeq(entries, 1, Len(KeyPapers)) = KeyPapers
    /\ entries # ToDataFrame(entries).rows

\* C13: identify_research_gaps() reports as missing_long_term_data the
\* number of records whose test duration is below 10000 hours, which is the
\* total when every record's is, and as limited_long_term_validation the
\* number with at least 10000 hours out of the total.
C13_LongTermCounts ==
    call.name = "identify_research_gaps" =>
        /\ result.raised = ""
        /\ result.dict.missing_long_term_data =
              Cardinality({i \in 1..Len(entries) : entries[i].test_duration_hours # None /\ entries[i].test_duration_hours < 1000000})
        /\ result.dict.limited_long_term_validation.count =
              Cardinality({i \in 1..Len(entries) : entries[i].test_duration_hours # None /\ entries[i].test_duration_hours >= 1000000})
        /\ result.dict.limited_long_term_validation.total = Len(entries)
        /\ (\A i \in 1..Len(entries) : entries[i].test_duration_hours # None /\ entries[i].test_duration_hours < 1000000)
              => result.dict.missing_long_term_data = Len(entries)

\* The same records the same number of times, in any order.
SameRecords(a, b) ==
    /\ Len(a) = Len(b)
    /\ \A r \in Range(a) \cup Range(b) :
          Cardinality({i \in 1..Len(a) : a[i] = r}) = Cardinality({i \in 1..Len(b) : b[i] = r})

\* C14: save_to_csv followed by load_from_csv of the same file reproduces
\* the exported records, in any order, every field with the value it had
\* and an absent field absent; this for every collection, the empty one
\* included: the export writes the file and the import does not fail.
C14_RoundTrip ==
    /\ (call.name = "save_to_csv" /\ DirName(call.path) # "") => result.raised = ""
    /\ (call.name = "load_from_csv" /\ "saved" \in DOMAIN call /\ disk.exists) =>
          /\ result.raised = ""
          /\ SameRecords(entries, exported)

ExpectedSearches ==
    (IF run.oxides THEN CONDUCTIVE_OXIDES ELSE <<>>)
    \o (IF run.nitrides THEN NITRIDES ELSE <<>>)
    \o (IF run.carbides THEN CARBIDES ELSE <<>>)

\* C16: the searches of one collect() run are issued one per loop
\* iteration, in the order oxides, nitrides, carbides and within a
\* catalogue in its listed order; when the run has ended every system of an
\* included catalogue has been searched exactly once, failed or not, and no
\* system of an excluded catalogue has been searched.
C16_SearchOrder ==
    /\ Len(searched) <= Len(ExpectedSearches)
    /\ searched = SubSeq(ExpectedSearches, 1, Len(searched))
    /\ pc = "searching" => Len(searched) = idx - 1
    /\ CallEnded =>
          /\ searched = ExpectedSearches
          /\ Cardinality(Range(searched)) = Len(searched)

\* A run without the nitrides has ended after a failed search: the ten
\* oxides and then the eleven carbides were searched, the failed one once.
C16_Witness ==
    /\ CallEnded
    /\ run.oxides /\ ~run.nitrides /\ run.carbides
    /\ failed # <<>>
    /\ Len(searched) = Len(CONDUCTIVE_OXIDES) + Len(CARBIDES)
    /\ searched[Len(CONDUCTIVE_OXIDES) + 1] = CARBIDES[1]

\* C17: no candidate in the collection belongs to a chemical system whose
\* processing raised during the run: a failure at the k-th document of a
\* system leaves none of that system's first k-1 documents.
C17_FailedContributesNothing ==
    \A i \in 1..Len(candidates) : candidates[i].chemical_system \notin Range(failed)

====
